---- MODULE Spec2Model ----
(***************************************************************************)
(* Region allocators of src/main.cpp (the revision at lines 131-691):      *)
(* the alignment primitives, the Arena bump allocator, the Stack LIFO      *)
(* allocator whose headers live in the padding between allocations, and    *)
(* the Pool allocator whose free list lives in the free chunks.            *)
(*                                                                         *)
(* Addresses are plain integers; the null pointer is 0.  The Stack buffer  *)
(* is modelled word by word (one cell per size_t / pointer), so every      *)
(* request in the Stack specification is a multiple of the word size and   *)
(* each header field occupies exactly one cell.  The Arena buffer is       *)
(* modelled byte by byte, the Pool buffer word by word.                    *)
(*                                                                         *)
(* Undefined behaviour is a choice among outcomes: a load or store through *)
(* a null or out-of-buffer pointer either faults (crashed) or proceeds     *)
(* outside the buffer (oob); a load of a never-written cell yields one of  *)
(* Indeterminate.                                                          *)
(***************************************************************************)
EXTENDS Integers, Sequences, FiniteSets, TLC

VARIABLES
    s_memory,       \* Stack: contents of the buffer m_memory points to, per word
    s_capacity,     \* Stack::m_capacity
    s_offset,       \* Stack::m_offset
    s_prev_offset,  \* Stack::m_prev_offset
    s_prev_header,  \* Stack::m_prev_header (address, 0 = nullptr)
    s_crashed,      \* Stack: the program faulted inside a Stack call
    s_oob,          \* Stack: a store landed outside the buffer
    s_live,         \* caller's view: live Stack allocations, bottom to top
    s_retired,      \* caller's view: blocks resize_aligned moved away, not yet re-allocated
    s_allocs,       \* successful Stack allocations the caller may still make
    s_resizes,      \* state-changing Stack::resize_aligned calls it may still make
    s_last,         \* the last Stack call: operation, arguments, result
    a_bytes,        \* Arena: contents of the buffer m_memory points to, per byte
    a_offset,       \* Arena::m_offset
    a_prev_offset,  \* Arena::m_prev_offset
    a_crashed,      \* Arena: the program faulted inside an Arena call
    a_oob,          \* Arena: an access landed outside the buffer
    a_live,         \* caller's view: Arena allocations since the last reset, oldest first
    a_dead,         \* caller's view: addresses a reset or a moving resize left behind
    a_misused,      \* the caller has resized an address it no longer holds
    a_allocs,       \* successful Arena allocations the caller may still make
    a_resizes,      \* state-changing Arena::resize_aligned calls it may still make
    a_last,         \* the last Arena call: operation, arguments, result
    p_cfg,          \* Pool: the arguments of the constructor
    p_memory,       \* Pool: contents of the buffer m_memory points to, per word
    p_aligned_memory, \* Pool::m_aligned_memory
    p_capacity,     \* Pool::m_capacity
    p_chunk_size,   \* Pool::m_chunk_size
    p_head,         \* Pool::m_free_list_head (address, 0 = nullptr)
    p_valid,        \* the caller's validity flag the constructor sets
    p_crashed,      \* Pool: the program faulted inside a Pool call
    p_oob,          \* Pool: an access landed outside the buffer
    p_out,          \* caller's view: chunks obtained from alloc and not given back
    p_misused,      \* the caller has freed an address it does not hold
    p_frees,        \* frees of addresses it does not hold that the caller may still make
    p_relinked,     \* free_all has run while the free list was not empty
    p_last,         \* the last Pool call: operation, argument, result
    f_base,         \* alignment primitives: the argument base
    f_align,        \* alignment primitives: the argument align
    f_header_size,  \* alignment primitives: the argument header_size
    f_last          \* alignment primitives: the function last applied and its result

stackVars == <<s_memory, s_capacity, s_offset, s_prev_offset, s_prev_header, s_crashed, s_oob,
               s_live, s_retired, s_allocs, s_resizes, s_last>>

arenaVars == <<a_bytes, a_offset, a_prev_offset, a_crashed, a_oob,
               a_live, a_dead, a_misused, a_allocs, a_resizes, a_last>>

poolVars == <<p_cfg, p_memory, p_aligned_memory, p_capacity, p_chunk_size, p_head, p_valid,
              p_crashed, p_oob, p_out, p_misused, p_frees, p_relinked, p_last>>

fnVars == <<f_base, f_align, f_header_size, f_last>>

vars == <<stackVars, arenaVars, poolVars, fnVars>>

----------------------------------------------------------------------------
(* Bounds of the model *)

\* Successful allocations per run of the Stack specification.
MaxStackAllocs == 4

\* Calls of Stack::resize_aligned that change something, per run.
MaxStackResizes == 2

\* Successful allocations per run of the specification in which the caller
\* uses one size and one alignment only.
MaxUniformAllocs == 6

\* Successful allocations per run of the Arena specification.
MaxArenaAllocs == 3

\* Calls of Arena::resize_aligned that change something, per run.
MaxArenaResizes == 2

\* Capacity of the Stack buffer, in words.
StackCapacityWords == 20

\* Capacity, in words, of the Stack buffer of the specification in which the
\* caller asks for alignments beyond the size of the buffer's first blocks.
WideCapacityWords == 56

\* Successful allocations per run of that specification.
MaxWideAllocs == 3

----------------------------------------------------------------------------
(* Program constants *)

Null == 0

\* sizeof(size_t) == sizeof(void*)
WordSize == 8

\* sizeof(StackAllocationHeader): four word-sized fields.
HeaderSize == 4 * WordSize

\* Byte offsets of the fields of StackAllocationHeader.
OffPadding == 0 * WordSize
OffPrevOffset == 1 * WordSize
OffPrevHeader == 2 * WordSize
OffNextHeader == 3 * WordSize

\* log2 of STACK_MAX_ALIGN = (size_t)1 << (8 * sizeof(padding) - 1).
StackMaxAlignLog2 == 8 * WordSize - 1

\* Address of the Stack's backing buffer (a local array: any address).
StackMemory == 72

StackCapacity == s_capacity

\* A cell no store has reached yet.
Uninit == -1

\* What a load of an indeterminate value may yield.
Indeterminate == {0, 1}

\* size_t arithmetic is modulo 2^64; a mask below 2^20 only sees the low 20
\* bits, and 2^20 divides 2^64.
LowBits == 2 ^ 20

----------------------------------------------------------------------------
(* Alignment primitives *)

RECURSIVE BitAnd(_, _)
BitAnd(a, b) ==
    IF a = 0 \/ b = 0 THEN 0
    ELSE (a % 2) * (b % 2) + 2 * BitAnd(a \div 2, b \div 2)

RECURSIVE Log2(_)
Log2(n) == IF n <= 1 THEN 0 ELSE 1 + Log2(n \div 2)

\* ~v on the low bits the model keeps; the bits above them are ones in ~v for
\* every v below LowBits.
BitNot(v) == (LowBits - 1) - v

\* return ~(x & (x - 1)), converted to bool: true when any bit is set.
is_power_of_two(x) == BitNot(BitAnd(x, (x - 1) % LowBits)) # 0

\* align - base & (align - 1): subtraction binds tighter than &.
AlignPadding(base, align) == BitAnd((align - base) % LowBits, align - 1)

\* forward_align adding align - (base & (align - 1)): an aligned base is moved
\* to the next boundary.
forward_align_always_pads(base, align) == base + (align - BitAnd(base, align - 1))

forward_align(base, align) == base + AlignPadding(base, align)

\* calc_padding_with_header without the "1 +" of line 242.
calc_padding_with_header_rounds_down(base, align, header_size) ==
    LET padding == AlignPadding(base, align) IN
    IF header_size > padding
    THEN LET space_needed == header_size - padding IN
         IF BitAnd(space_needed, align - 1) # 0
         THEN padding + align * (space_needed \div align)
         ELSE padding + space_needed
    ELSE padding

calc_padding_with_header(base, align, header_size) ==
    LET padding == AlignPadding(base, align) IN
    IF header_size > padding
    THEN LET space_needed == header_size - padding IN
         IF BitAnd(space_needed, align - 1) # 0
         THEN padding + align * (1 + space_needed \div align)
         ELSE padding + space_needed
    ELSE padding

----------------------------------------------------------------------------
(* Stack: memory access *)

StackWords == 0 .. StackCapacity \div WordSize - 1

StackRec == [mem |-> s_memory, offset |-> s_offset, prev_offset |-> s_prev_offset,
             prev_header |-> s_prev_header, crashed |-> s_crashed, oob |-> s_oob]

\* The word at address p lies inside the buffer.
InStack(p) == p >= StackMemory /\ p + WordSize <= StackMemory + StackCapacity

WordIx(p) == (p - StackMemory) \div WordSize

\* The outcomes of loading the word at p.
Loads(S, p) ==
    IF InStack(p)
    THEN LET c == S.mem[WordIx(p)] IN
         {[fault |-> FALSE, val |-> v] : v \in (IF c = Uninit THEN Indeterminate ELSE {c})}
    ELSE {[fault |-> TRUE, val |-> 0]}
         \cup {[fault |-> FALSE, val |-> v] : v \in Indeterminate}

\* The outcomes of storing v to the word at p.
Stores(S, p, v) ==
    IF InStack(p)
    THEN {[S EXCEPT !.mem[WordIx(p)] = v]}
    ELSE {[S EXCEPT !.crashed = TRUE], [S EXCEPT !.oob = TRUE]}

\* std::memset(p, 0, n) on the part of [p, p+n) that is inside the buffer.
ZeroWords(mem, p, n) ==
    [w \in StackWords |->
        IF StackMemory + w * WordSize >= p /\ StackMemory + w * WordSize < p + n
        THEN 0 ELSE mem[w]]

\* [p, p+n) is inside the buffer.
RangeInStack(p, n) == p >= StackMemory /\ p + n <= StackMemory + StackCapacity

\* std::memset(p, 0, n)
Memset0(S, p, n) ==
    IF n = 0 \/ RangeInStack(p, n)
    THEN {[S EXCEPT !.mem = ZeroWords(S.mem, p, n)]}
    ELSE {[S EXCEPT !.crashed = TRUE],
          [S EXCEPT !.mem = ZeroWords(S.mem, p, n), !.oob = TRUE]}

\* std::memmove(dst, src, n): the source is read whole before it is written.
Memmove(S, dst, src, n) ==
    IF n = 0 THEN {S}
    ELSE IF RangeInStack(dst, n) /\ RangeInStack(src, n)
    THEN {[S EXCEPT !.mem =
            [w \in StackWords |->
                IF StackMemory + w * WordSize >= dst /\ StackMemory + w * WordSize < dst + n
                THEN S.mem[w + (src - dst) \div WordSize] ELSE S.mem[w]]]}
    ELSE {[S EXCEPT !.crashed = TRUE], [S EXCEPT !.oob = TRUE]}

Ret(S, v) == [st |-> S, ret |-> v]

Crash(S) == [S EXCEPT !.crashed = TRUE]

Abort(S) == [st |-> Crash(S), ret |-> Null]

\* free returns bool
AbortFree(S) == [st |-> Crash(S), ret |-> FALSE]

\* Load the word at p and continue with its value; a faulting load ends the call.
LoadThen(S, p, F(_)) ==
    UNION { IF r.fault THEN {Crash(S)} ELSE F(r.val) : r \in Loads(S, p) }

\* The next statement, run from every outcome of the previous one that did not fault.
Then(SS, F(_)) == UNION { IF S.crashed THEN {S} ELSE F(S) : S \in SS }


----------------------------------------------------------------------------
(* Stack: operations *)

ClampAlign(align) ==
    IF Log2(align) > StackMaxAlignLog2 THEN 2 ^ StackMaxAlignLog2 ELSE align

\* header->padding = (uint8_t)padding
TruncU8(padding) == padding % 256

Stack_alloc_aligned(S, alloc_size, align0) ==
    LET align == ClampAlign(align0)
        base_addr == StackMemory + S.offset
        padding == calc_padding_with_header(base_addr, align, HeaderSize)
    IN
    IF S.offset + alloc_size + padding > StackCapacity THEN {Ret(S, Null)}
    ELSE
    LET next_aligned_addr == base_addr + padding
        header == next_aligned_addr - HeaderSize
        S1 == [S EXCEPT !.prev_offset = S.offset, !.offset = S.offset + padding]
        S2 == [S1 EXCEPT !.mem = [S1.mem EXCEPT ![WordIx(header + OffPadding)] = TruncU8(padding),
                                               ![WordIx(header + OffPrevHeader)] = S.prev_header,
                                               ![WordIx(header + OffPrevOffset)] = S1.prev_offset]]
        linked == IF S2.prev_header # Null
                  THEN Stores(S2, S2.prev_header + OffNextHeader, header)
                  ELSE {S2}
    IN
    UNION {
        IF S3.crashed THEN {Abort(S3)}
        ELSE LET S4 == [S3 EXCEPT !.prev_header = header, !.offset = S3.offset + alloc_size]
             IN {Ret(S5, next_aligned_addr) : S5 \in Memset0(S4, next_aligned_addr, alloc_size)}
        : S3 \in linked }

Stack_free(S, alloc) ==
    IF alloc = Null THEN {Ret(S, FALSE)}
    ELSE
    LET start == StackMemory
        end == start + StackCapacity
        curr_addr == alloc
    IN
    IF curr_addr < start \/ curr_addr > end THEN {Ret(S, FALSE)}
    ELSE IF curr_addr >= start + S.offset THEN {Ret(S, FALSE)}
    ELSE
    LET header == curr_addr - HeaderSize IN
    UNION {
        IF po.fault THEN {AbortFree(S)}
        ELSE IF S.prev_offset # po.val THEN {Ret(S, FALSE)}
        ELSE
        LET S1 == [S EXCEPT !.offset = S.prev_offset] IN
        UNION {
            IF ph.fault THEN {AbortFree(S1)}
            ELSE IF ph.val # Null
            THEN { IF ppo.fault THEN AbortFree(S1)
                   ELSE Ret([S1 EXCEPT !.prev_offset = ppo.val, !.prev_header = ph.val], TRUE)
                   : ppo \in Loads(S1, ph.val + OffPrevOffset) }
            ELSE {Ret([S1 EXCEPT !.prev_offset = 0, !.prev_header = Null], TRUE)}
            : ph \in Loads(S1, header + OffPrevHeader) }
        : po \in Loads(S, header + OffPrevOffset) }

\* A result of resize_aligned; freed tells whether the free it delegated to succeeded.
Res(S, v, f) == [st |-> S, ret |-> v, freed |-> f]

\* The splice of lines 362-365 without lines 366-367: the links of the header
\* of the block that was moved are left as they were.
Stack_retire_header_links_kept(S, header) ==
    LET l362 == LoadThen(S, header + OffNextHeader, LAMBDA nh :
                  LoadThen(S, nh + OffPadding, LAMBDA a :
                    LoadThen(S, header + OffPadding, LAMBDA b :
                      Stores(S, nh + OffPadding, a + b))))
        l363 == Then(l362, LAMBDA T :
                  LoadThen(T, header + OffNextHeader, LAMBDA nh :
                    LoadThen(T, header + OffPrevOffset, LAMBDA v :
                      Stores(T, nh + OffPrevOffset, v))))
        l364 == Then(l363, LAMBDA T :
                  LoadThen(T, header + OffNextHeader, LAMBDA nh :
                    LoadThen(T, header + OffPrevHeader, LAMBDA v :
                      Stores(T, nh + OffPrevHeader, v))))
    IN  Then(l364, LAMBDA T :
          LoadThen(T, header + OffPrevHeader, LAMBDA ph :
            LoadThen(T, header + OffNextHeader, LAMBDA v :
              Stores(T, ph + OffNextHeader, v))))

\* Lines 362-367: unlink the header of the block that was moved.
Stack_retire_header(S, header) ==
    LET l362 == LoadThen(S, header + OffNextHeader, LAMBDA nh :
                  LoadThen(S, nh + OffPadding, LAMBDA a :
                    LoadThen(S, header + OffPadding, LAMBDA b :
                      Stores(S, nh + OffPadding, a + b))))
        l363 == Then(l362, LAMBDA T :
                  LoadThen(T, header + OffNextHeader, LAMBDA nh :
                    LoadThen(T, header + OffPrevOffset, LAMBDA v :
                      Stores(T, nh + OffPrevOffset, v))))
        l364 == Then(l363, LAMBDA T :
                  LoadThen(T, header + OffNextHeader, LAMBDA nh :
                    LoadThen(T, header + OffPrevHeader, LAMBDA v :
                      Stores(T, nh + OffPrevHeader, v))))
        l365 == Then(l364, LAMBDA T :
                  LoadThen(T, header + OffPrevHeader, LAMBDA ph :
                    LoadThen(T, header + OffNextHeader, LAMBDA v :
                      Stores(T, ph + OffNextHeader, v))))
        l366 == Then(l365, LAMBDA T : Stores(T, header + OffPrevHeader, Null))
    IN  Then(l366, LAMBDA T : Stores(T, header + OffNextHeader, Null))

\* Lines 346-369: move a block that is not on top to a fresh allocation.
Stack_resize_move(S, old_allocation, old_size, new_size, align) ==
    LET header == old_allocation - HeaderSize
        min_size == IF old_size < new_size THEN old_size ELSE new_size
    IN
    UNION {
        IF a.st.crashed THEN {Res(a.st, Null, FALSE)}
        ELSE LET resized_alloc == a.ret
                 moved == Memmove(a.st, resized_alloc, old_allocation, min_size)
             IN { Res(T, IF T.crashed THEN Null ELSE resized_alloc, FALSE)
                  : T \in Then(moved, LAMBDA M : Stack_retire_header(M, header)) }
        : a \in Stack_alloc_aligned(S, new_size, align) }

Stack_resize_aligned(S, old_allocation, old_size, new_size, align) ==
    IF old_allocation = Null
    THEN {Res(r.st, r.ret, FALSE) : r \in Stack_alloc_aligned(S, new_size, align)}
    ELSE IF new_size = 0
    THEN {Res(r.st, Null, r.ret) : r \in Stack_free(S, old_allocation)}
    ELSE
    LET old_alloc == old_allocation
        start == StackMemory
        end == start + StackCapacity
    IN
    IF old_alloc < start \/ old_alloc > end THEN {Res(S, Null, FALSE)}
    ELSE IF old_alloc >= start + S.offset THEN {Res(S, Null, FALSE)}
    ELSE
    LET header == old_alloc - HeaderSize IN
    IF header = S.prev_header
    THEN LET zeroed == IF new_size > old_size
                       THEN Memset0(S, old_alloc + old_size, new_size)
                       ELSE {S}
         IN { IF T.crashed THEN Res(T, Null, FALSE)
              ELSE Res([T EXCEPT !.offset = (old_alloc - start) + new_size], old_allocation, FALSE)
              : T \in zeroed }
    ELSE
    LET move == Stack_resize_move(S, old_allocation, old_size, new_size, align) IN
    UNION {
        IF ph.fault THEN {Res(Crash(S), Null, FALSE)}
        ELSE IF ph.val = Null
        THEN UNION { IF nh.fault THEN {Res(Crash(S), Null, FALSE)}
                     ELSE IF nh.val = Null THEN {Res(S, Null, FALSE)}
                     ELSE move
                     : nh \in Loads(S, header + OffNextHeader) }
        ELSE move
        : ph \in Loads(S, header + OffPrevHeader) }

Stack_reset(S) == [S EXCEPT !.offset = 0, !.prev_offset = 0, !.prev_header = Null]

----------------------------------------------------------------------------
(* Stack: the caller *)

\* The caller asks for these alignments and sizes (multiples of the word size).
StackAligns == {8, 16}
StackSizes == {0, 8}

\* The new sizes it asks resize_aligned for.
StackNewSizes == {0, 8, 16}

\* Addresses just outside the buffer.
StackLow == StackMemory - WordSize
StackHigh == StackMemory + StackCapacity + WordSize

Top(live) == live[Len(live)]

LiveAddrs == {s_live[i].addr : i \in DOMAIN s_live}
RetiredAddrs == {x.addr : x \in s_retired}

\* The addresses the caller passes to free and resize_aligned: the allocations
\* it holds, the blocks a resize moved away, null, addresses outside the buffer
\* and the first address not allocated yet.
StackAddrs == LiveAddrs \cup RetiredAddrs
              \cup {Null, StackLow, StackHigh, StackMemory + s_offset}

LiveRec(a) == s_live[CHOOSE i \in DOMAIN s_live : s_live[i].addr = a]
RetiredRec(a) == CHOOSE x \in s_retired : x.addr = a
HandleOf(a) == IF a \in LiveAddrs THEN LiveRec(a)
               ELSE IF a \in RetiredAddrs THEN RetiredRec(a)
               ELSE [addr |-> a, size |-> WordSize, align |-> WordSize]

\* What the address is to the caller at the time of a call.
Kind(a) ==
    IF a = Null THEN "null"
    ELSE IF a \in LiveAddrs
    THEN (IF Top(s_live).addr = a THEN "top" ELSE "nontop")
    ELSE IF a \in RetiredAddrs THEN "retired"
    ELSE IF a < StackMemory \/ a >= StackMemory + StackCapacity THEN "outside"
    ELSE IF a >= StackMemory + s_offset THEN "unallocated"
    ELSE "inside"

AsRetired(rec) == [addr |-> rec.addr, size |-> rec.size, align |-> rec.align]

Without(live, a) == SelectSeq(live, LAMBDA x : x.addr # a)

\* folded marks the block directly above a block resize_aligned moved away, for
\* as long as the caller has since only freed its top allocation.
Unfold(live) == [i \in DOMAIN live |-> [live[i] EXCEPT !.folded = FALSE]]

\* A new allocation a of size bytes, made when the offset was before.
LiveAfterAlloc(live, a, size, align, before) ==
    Append(Without(live, a),
           [addr |-> a, size |-> size, align |-> align, before |-> before, folded |-> FALSE])

\* A retired address stays retired until its region is allocated again: by an
\* allocation that starts below it, or by growing the block below it in place.
RetiredBelow(retired, limit) == {x \in retired : x.addr <= limit}

\* The block at a was moved by resize_aligned: its space now belongs to the live
\* block directly above it.
LiveAfterRetire(live, a) ==
    LET i == CHOOSE j \in DOMAIN live : live[j].addr = a IN
    Without([j \in DOMAIN live |->
                IF j = i + 1
                THEN [live[j] EXCEPT !.before = live[i].before, !.folded = TRUE]
                ELSE live[j]], a)

\* The new region overlaps a region the caller still holds.
Overlaps(live, a, size) ==
    \E i \in DOMAIN live :
        /\ a < live[i].addr + live[i].size
        /\ live[i].addr < a + size

NoCall == [op |-> "none", addr |-> Null, kind |-> "null", size |-> 0, align |-> 0,
           ret |-> Null, freed |-> FALSE, pre_offset |-> 0, overlap |-> FALSE,
           phase |-> "allocs"]

\* The record of a call that changed the allocator or returned an address.  A
\* call that returns null or false and changes nothing leaves the state as it
\* is: what such a call returns is a function of the state it is made in.
\* phase: "allocs" while the caller has only allocated since construction or
\* reset, "frees" while it then only frees its top allocation.
Call(op, addr, size, align, ret, freed, phase) ==
    [op |-> op, addr |-> addr, kind |-> Kind(addr), size |-> size, align |-> align,
     ret |-> ret, freed |-> freed, pre_offset |-> s_offset,
     overlap |-> (ret # Null /\ ret # addr /\ Overlaps(s_live, ret, size)),
     phase |-> phase]

InitStackWith(words, allocs, resizes) ==
    /\ s_capacity = words * WordSize
    /\ s_memory = [w \in 0 .. words - 1 |-> Uninit]
    /\ s_offset = 0
    /\ s_prev_offset = 0
    /\ s_prev_header = Null
    /\ s_crashed = FALSE
    /\ s_oob = FALSE
    /\ s_live = <<>>
    /\ s_retired = {}
    /\ s_allocs = allocs
    /\ s_resizes = resizes
    /\ s_last = NoCall

InitStack(allocs, resizes) == InitStackWith(StackCapacityWords, allocs, resizes)

SetStack(S) ==
    /\ s_memory' = S.mem
    /\ s_capacity' = s_capacity
    /\ s_offset' = S.offset
    /\ s_prev_offset' = S.prev_offset
    /\ s_prev_header' = S.prev_header
    /\ s_crashed' = S.crashed
    /\ s_oob' = S.oob

StackAlloc(size, align) ==
    /\ ~s_crashed
    /\ \E r \in Stack_alloc_aligned(StackRec, size, align) :
        IF r.ret = Null /\ r.st = StackRec THEN UNCHANGED vars
        ELSE
        /\ SetStack(r.st)
        /\ s_last' = Call("alloc", Null, size, align, r.ret, FALSE,
                          IF r.ret # Null /\ s_last.phase = "allocs" THEN "allocs" ELSE "other")
        /\ IF r.ret # Null
           THEN /\ s_allocs > 0
                /\ s_allocs' = s_allocs - 1
                /\ s_live' = LiveAfterAlloc(Unfold(s_live), r.ret, size, align, s_offset)
                /\ s_retired' = RetiredBelow({x \in s_retired : x.addr # r.ret},
                                             StackMemory + s_offset)
           ELSE UNCHANGED <<s_allocs, s_live, s_retired>>
        /\ UNCHANGED s_resizes

StackFree(addr) ==
    /\ ~s_crashed
    /\ \E r \in Stack_free(StackRec, addr) :
        IF ~r.ret /\ r.st = StackRec THEN UNCHANGED vars
        ELSE
        /\ SetStack(r.st)
        /\ s_last' = Call("free", addr, 0, 0, Null, r.ret,
                          IF s_last.phase \in {"allocs", "frees"} /\ Kind(addr) = "top" /\ r.ret
                          THEN "frees" ELSE "other")
        /\ s_live' = IF ~r.ret THEN Unfold(s_live)
                     ELSE IF Kind(addr) = "top" THEN Without(s_live, addr)
                     ELSE Unfold(Without(s_live, addr))
        /\ UNCHANGED <<s_retired, s_allocs, s_resizes>>

\* resize_aligned with the size and alignment the allocation was made with.
StackResize(addr, new_size) ==
    LET h == HandleOf(addr) IN
    /\ ~s_crashed
    /\ \E r \in Stack_resize_aligned(StackRec, addr, h.size, new_size, h.align) :
        IF r.ret = Null /\ ~r.freed /\ r.st = StackRec THEN UNCHANGED vars
        ELSE
        /\ s_resizes > 0
        /\ s_resizes' = s_resizes - 1
        /\ SetStack(r.st)
        /\ s_last' = Call("resize", addr, new_size, h.align, r.ret, r.freed, "other")
        /\ IF r.ret = Null
           THEN \* failed, or new_size == 0 and the block was freed (or not)
                /\ s_live' = IF r.freed /\ Kind(addr) = "top" THEN Without(s_live, addr)
                             ELSE Unfold(Without(s_live, IF r.freed THEN addr ELSE Null))
                /\ UNCHANGED <<s_retired, s_allocs>>
           ELSE IF r.ret = addr
           THEN \* resized in place
                /\ s_live' = IF addr \in LiveAddrs
                             THEN [i \in DOMAIN s_live |->
                                    IF s_live[i].addr = addr
                                    THEN [s_live[i] EXCEPT !.size = new_size, !.folded = FALSE]
                                    ELSE [s_live[i] EXCEPT !.folded = FALSE]]
                             ELSE LiveAfterAlloc(Unfold(s_live), addr, new_size, h.align,
                                                 s_prev_offset)
                /\ s_retired' = RetiredBelow(s_retired, addr) \ {x \in s_retired : x.addr = addr}
                /\ UNCHANGED s_allocs
           ELSE \* a fresh allocation: of a null pointer, or of a block that was moved
                /\ s_allocs > 0
                /\ s_allocs' = s_allocs - 1
                /\ s_live' = LiveAfterAlloc(
                                IF addr \in LiveAddrs THEN LiveAfterRetire(Unfold(s_live), addr)
                                ELSE Unfold(s_live),
                                r.ret, new_size, h.align, s_offset)
                /\ s_retired' = RetiredBelow(
                                  {x \in s_retired : x.addr # r.ret}
                                  \cup (IF addr \in LiveAddrs THEN {AsRetired(LiveRec(addr))} ELSE {}),
                                  StackMemory + s_offset)

StackReset ==
    /\ ~s_crashed
    /\ SetStack(Stack_reset(StackRec))
    /\ s_last' = Call("reset", Null, 0, 0, Null, FALSE, "allocs")
    /\ s_live' = <<>>
    /\ UNCHANGED <<s_retired, s_allocs, s_resizes>>

----------------------------------------------------------------------------
(* Arena: memory access *)

\* arena_size of test_arena.
ArenaCapacity == 8

\* Address of the Arena's backing buffer (the caller's array: any address).
ArenaMemory == 33

ArenaBytes == 0 .. ArenaCapacity - 1

ArenaRec == [mem |-> a_bytes, offset |-> a_offset, prev_offset |-> a_prev_offset,
             crashed |-> a_crashed, oob |-> a_oob]

\* [p, p+n) is inside the buffer.
RangeInArena(p, n) == p >= ArenaMemory /\ p + n <= ArenaMemory + ArenaCapacity

ZeroBytes(mem, p, n) ==
    [b \in ArenaBytes |->
        IF ArenaMemory + b >= p /\ ArenaMemory + b < p + n THEN 0 ELSE mem[b]]

\* std::memset(p, 0, n)
ArenaMemset0(A, p, n) ==
    IF n = 0 \/ RangeInArena(p, n)
    THEN {[A EXCEPT !.mem = ZeroBytes(A.mem, p, n)]}
    ELSE {[A EXCEPT !.crashed = TRUE],
          [A EXCEPT !.mem = ZeroBytes(A.mem, p, n), !.oob = TRUE]}

\* The memmove of line 190 left out: nothing is copied.
ArenaMemmoveSkipped(A, dst, src, n) == {A}

\* std::memmove(dst, src, n): the source is read whole before it is written.
\* A byte read from outside the buffer is indeterminate.
ArenaMemmove(A, dst, src, n) ==
    LET moved == [b \in ArenaBytes |->
                    IF ArenaMemory + b >= dst /\ ArenaMemory + b < dst + n
                    THEN (IF b + (src - dst) \in ArenaBytes
                          THEN A.mem[b + (src - dst)] ELSE Uninit)
                    ELSE A.mem[b]]
    IN
    IF n = 0 THEN {A}
    ELSE IF RangeInArena(dst, n) /\ RangeInArena(src, n)
    THEN {[A EXCEPT !.mem = moved]}
    ELSE {[A EXCEPT !.crashed = TRUE], [A EXCEPT !.mem = moved, !.oob = TRUE]}

----------------------------------------------------------------------------
(* Arena: operations *)

\* alloc_aligned with line 165 moved in front of the capacity check of line
\* 163: a request that does not fit still records the offset in prev_offset.
Arena_alloc_aligned_prev_first(A, bytes, align) ==
    IF bytes = 0 THEN {Ret(A, Null)}
    ELSE
    LET base_addr == ArenaMemory + A.offset
        aligned_addr == forward_align(base_addr, align)
        aligned_offset == aligned_addr - ArenaMemory
        next_offset == aligned_offset + bytes
        A0 == [A EXCEPT !.prev_offset = A.offset]
    IN
    IF next_offset > ArenaCapacity THEN {Ret(A0, Null)}
    ELSE
    LET A1 == [A0 EXCEPT !.offset = next_offset]
    IN {Ret(A2, aligned_addr) : A2 \in ArenaMemset0(A1, aligned_addr, bytes)}

Arena_alloc_aligned(A, bytes, align) ==
    IF bytes = 0 THEN {Ret(A, Null)}
    ELSE
    LET base_addr == ArenaMemory + A.offset
        aligned_addr == forward_align(base_addr, align)
        aligned_offset == aligned_addr - ArenaMemory
        next_offset == aligned_offset + bytes
    IN
    IF next_offset > ArenaCapacity THEN {Ret(A, Null)}
    ELSE
    LET A1 == [A EXCEPT !.prev_offset = A.offset, !.offset = next_offset]
    IN {Ret(A2, aligned_addr) : A2 \in ArenaMemset0(A1, aligned_addr, bytes)}

\* Lines 187-192: allocate a new block and copy the old data to it.
Arena_resize_move(A, old_alloc, old_size, new_size, align) ==
    UNION {
        IF q.ret = Null THEN {Ret(q.st, Null)}
        ELSE LET new_alloc == q.ret
                 copy_size == IF old_size < new_size THEN old_size ELSE new_size
             IN {Ret(A2, IF A2.crashed THEN Null ELSE new_alloc)
                 : A2 \in ArenaMemmove(q.st, new_alloc, old_alloc, copy_size)}
        : q \in Arena_alloc_aligned(A, new_size, align) }

Arena_resize_aligned(A, old_allocation, old_size, new_size, align) ==
    LET old_alloc == old_allocation IN
    IF old_alloc = Null \/ old_size = 0 THEN {Ret(A, Null)}
    ELSE IF old_alloc < ArenaMemory \/ old_alloc > ArenaMemory + ArenaCapacity
    THEN {Ret(A, Null)}
    ELSE IF ArenaMemory + A.prev_offset = old_alloc
    THEN LET A1 == [A EXCEPT !.offset = A.prev_offset + new_size]
             zeroed == IF new_size > old_size
                       THEN ArenaMemset0(A1, ArenaMemory + A1.offset, new_size - old_size)
                       ELSE {A1}
         IN {Ret(A2, IF A2.crashed THEN Null ELSE old_alloc) : A2 \in zeroed}
    ELSE Arena_resize_move(A, old_alloc, old_size, new_size, align)

Arena_reset(A) == [A EXCEPT !.offset = 0]

----------------------------------------------------------------------------
(* Arena: the caller *)

\* The caller asks for these alignments and sizes.
ArenaAligns == {1, 2, 4}
ArenaSizes == {0, 1, 2}

\* The new sizes it asks resize_aligned for.
ArenaNewSizes == {0, 1, 2, 4}

\* Addresses outside the buffer, and the address one past its end.
ArenaLow == ArenaMemory - 1
ArenaHigh == ArenaMemory + ArenaCapacity + 1
ArenaEnd == ArenaMemory + ArenaCapacity

ArenaLiveAddrs == {a_live[i].addr : i \in DOMAIN a_live}

\* The addresses the caller passes to resize_aligned: the allocations it holds,
\* the ones a reset or a moving resize left behind, null, and addresses
\* outside the buffer.
ArenaAddrs == ArenaLiveAddrs \cup a_dead \cup {Null, ArenaLow, ArenaHigh, ArenaEnd}

ArenaLiveRec(a) == a_live[CHOOSE i \in DOMAIN a_live : a_live[i].addr = a]
ArenaHandleOf(a) == IF a \in ArenaLiveAddrs THEN ArenaLiveRec(a)
                    ELSE [addr |-> a, size |-> 1, align |-> 1]

\* What the address is to the caller at the time of a call.
ArenaKind(a) ==
    IF a = Null THEN "null"
    ELSE IF a \in ArenaLiveAddrs
    THEN (IF Top(a_live).addr = a THEN "recent" ELSE "earlier")
    ELSE IF a \in a_dead THEN "dead"
    ELSE "outside"

\* The allocation at address a of size bytes becomes the most recent one.
ArenaLiveAfterAlloc(live, a, size, align) ==
    Append(Without(live, a), [addr |-> a, size |-> size, align |-> align])

ArenaNoCall == [op |-> "none", addr |-> Null, kind |-> "null", size |-> 0, align |-> 0,
                ret |-> Null, pre_offset |-> 0, overlap |-> FALSE]

\* The record of a call that changed the allocator or returned an address.
ArenaCall(op, addr, size, align, ret) ==
    [op |-> op, addr |-> addr, kind |-> ArenaKind(addr), size |-> size, align |-> align,
     ret |-> ret, pre_offset |-> a_offset,
     overlap |-> (ret # Null /\ ret # addr /\ Overlaps(a_live, ret, size))]

\* The k-th byte the caller writes into an allocation.
Pattern(k) == k + 1

\* The caller's data written into the n bytes at p.
Filled(mem, p, n) ==
    [b \in ArenaBytes |->
        IF ArenaMemory + b >= p /\ ArenaMemory + b < p + n
        THEN Pattern(ArenaMemory + b - p) ELSE mem[b]]

InitArenaWith(allocs, resizes) ==
    /\ a_bytes = [b \in ArenaBytes |-> Uninit]
    /\ a_offset = 0
    /\ a_prev_offset = 0
    /\ a_crashed = FALSE
    /\ a_oob = FALSE
    /\ a_live = <<>>
    /\ a_dead = {}
    /\ a_misused = FALSE
    /\ a_allocs = allocs
    /\ a_resizes = resizes
    /\ a_last = ArenaNoCall

InitArena == InitArenaWith(MaxArenaAllocs, MaxArenaResizes)

SetArena(A) ==
    /\ a_bytes' = A.mem
    /\ a_offset' = A.offset
    /\ a_prev_offset' = A.prev_offset
    /\ a_crashed' = A.crashed
    /\ a_oob' = A.oob

\* alloc_aligned, and the caller writing its data into what it obtained.
ArenaAlloc(bytes, align) ==
    /\ ~a_crashed
    /\ \E r \in Arena_alloc_aligned(ArenaRec, bytes, align) :
        IF r.ret = Null /\ r.st = ArenaRec THEN UNCHANGED vars
        ELSE
        /\ a_allocs > 0
        /\ a_allocs' = a_allocs - 1
        /\ SetArena([r.st EXCEPT !.mem = Filled(r.st.mem, r.ret, bytes)])
        /\ a_last' = ArenaCall("alloc", Null, bytes, align, r.ret)
        /\ a_live' = ArenaLiveAfterAlloc(a_live, r.ret, bytes, align)
        /\ a_dead' = a_dead \ {r.ret}
        /\ UNCHANGED <<a_misused, a_resizes, stackVars>>

\* resize_aligned with the size and alignment the allocation was made with.
ArenaResize(addr, new_size) ==
    LET h == ArenaHandleOf(addr) IN
    /\ ~a_crashed
    /\ \E r \in Arena_resize_aligned(ArenaRec, addr, h.size, new_size, h.align) :
        IF r.ret = Null /\ r.st = ArenaRec THEN UNCHANGED vars
        ELSE
        /\ a_resizes > 0
        /\ a_resizes' = a_resizes - 1
        /\ SetArena(r.st)
        /\ a_last' = ArenaCall("resize", addr, new_size, h.align, r.ret)
        /\ a_misused' = (a_misused \/ addr \notin ArenaLiveAddrs)
        /\ UNCHANGED stackVars
        /\ IF r.ret = Null
           THEN UNCHANGED <<a_live, a_dead, a_allocs>>
           ELSE IF r.ret = addr
           THEN \* resized in place
                /\ a_live' = IF addr \in ArenaLiveAddrs
                             THEN [i \in DOMAIN a_live |->
                                    IF a_live[i].addr = addr
                                    THEN [a_live[i] EXCEPT !.size = new_size]
                                    ELSE a_live[i]]
                             ELSE ArenaLiveAfterAlloc(a_live, addr, new_size, h.align)
                /\ a_dead' = a_dead \ {addr}
                /\ UNCHANGED a_allocs
           ELSE \* moved to a fresh allocation
                /\ a_allocs > 0
                /\ a_allocs' = a_allocs - 1
                /\ a_live' = ArenaLiveAfterAlloc(Without(a_live, addr), r.ret, new_size, h.align)
                /\ a_dead' = (a_dead \cup (ArenaLiveAddrs \cap {addr})) \ {r.ret}

ArenaReset ==
    /\ ~a_crashed
    /\ SetArena(Arena_reset(ArenaRec))
    /\ a_last' = ArenaCall("reset", Null, 0, 0, Null)
    /\ a_live' = <<>>
    /\ a_dead' = a_dead \cup ArenaLiveAddrs
    /\ UNCHANGED <<a_misused, a_allocs, a_resizes, stackVars>>

----------------------------------------------------------------------------
(* Pool: memory access *)

\* Address of the Pool's backing buffer (the caller's array: any address).
PoolMemory == 72

\* sizeof(PoolFreeNode): one pointer.
PoolNodeSize == WordSize

\* size_t and uintptr_t arithmetic wraps; the model keeps the low 20 bits of a
\* size, which tells a wrapped capacity from every size and address in use.
SizeModulus == LowBits

PoolRec == [mem |-> p_memory, aligned_memory |-> p_aligned_memory, capacity |-> p_capacity,
            chunk_size |-> p_chunk_size, head |-> p_head,
            crashed |-> p_crashed, oob |-> p_oob]

\* The word at address p lies inside the buffer.
InPool(P, p) ==
    /\ p >= PoolMemory
    /\ (p - PoolMemory) % WordSize = 0
    /\ (p - PoolMemory) \div WordSize \in DOMAIN P.mem

PoolIx(p) == (p - PoolMemory) \div WordSize

\* The outcomes of loading the word at p.
PoolLoads(P, p) ==
    IF InPool(P, p)
    THEN LET c == P.mem[PoolIx(p)] IN
         {[fault |-> FALSE, val |-> v] : v \in (IF c = Uninit THEN Indeterminate ELSE {c})}
    ELSE {[fault |-> TRUE, val |-> 0]}
         \cup {[fault |-> FALSE, val |-> v] : v \in Indeterminate}

\* The outcomes of storing v to the word at p.
PoolStores(P, p, v) ==
    IF InPool(P, p)
    THEN {[P EXCEPT !.mem[PoolIx(p)] = v]}
    ELSE {[P EXCEPT !.crashed = TRUE], [P EXCEPT !.oob = TRUE]}

\* The words of [p, p+n) that are inside the buffer, set to v.
PoolFill(mem, p, n, v) ==
    [w \in DOMAIN mem |->
        IF PoolMemory + w * WordSize >= p /\ PoolMemory + w * WordSize < p + n
        THEN v ELSE mem[w]]

\* [p, p+n) is inside the buffer.
RangeInPool(P, p, n) ==
    /\ p >= PoolMemory
    /\ (p - PoolMemory) % WordSize = 0
    /\ p + n <= PoolMemory + Cardinality(DOMAIN P.mem) * WordSize

\* The memset of line 444 with sizeof(PoolFreeNode) for m_chunk_size: only the
\* word that held the free-list node is cleared.
PoolMemset0_node_only(P, p, n) ==
    IF RangeInPool(P, p, n)
    THEN {[P EXCEPT !.mem = PoolFill(P.mem, p, PoolNodeSize, 0)]}
    ELSE {[P EXCEPT !.crashed = TRUE],
          [P EXCEPT !.mem = PoolFill(P.mem, p, PoolNodeSize, 0), !.oob = TRUE]}

\* memset(p, 0, n)
PoolMemset0(P, p, n) ==
    IF RangeInPool(P, p, n)
    THEN {[P EXCEPT !.mem = PoolFill(P.mem, p, n, 0)]}
    ELSE {[P EXCEPT !.crashed = TRUE],
          [P EXCEPT !.mem = PoolFill(P.mem, p, n, 0), !.oob = TRUE]}

----------------------------------------------------------------------------
(* Pool: operations *)

\* The loop of free_all from chunk i on.  Once a chunk lies outside the
\* buffer every later one does too: the stores fault, or go on outside the
\* buffer and leave the last chunk as the head.
RECURSIVE Pool_link_chunks(_, _, _)
Pool_link_chunks(P, i, num_chunks) ==
    IF i >= num_chunks THEN {P}
    ELSE
    LET chunk == P.aligned_memory + i * P.chunk_size IN
    IF InPool(P, chunk)
    THEN Pool_link_chunks([P EXCEPT !.mem[PoolIx(chunk)] = P.head, !.head = chunk],
                          i + 1, num_chunks)
    ELSE {[P EXCEPT !.crashed = TRUE],
          [P EXCEPT !.oob = TRUE,
                    !.head = (P.aligned_memory + (num_chunks - 1) * P.chunk_size) % SizeModulus]}

Pool_free_all(P) ==
    LET num_chunks == P.capacity \div P.chunk_size IN
    Pool_link_chunks(P, 0, num_chunks)

\* The constructor, on a buffer of capacity bytes nothing has been stored in:
\* the Pool it leaves and the validity flag it sets.
Pool_Pool(capacity, chunk_size, chunk_align) ==
    LET aligned_memory == forward_align(PoolMemory, chunk_align)
        m_capacity == (capacity - (aligned_memory - PoolMemory)) % SizeModulus
        m_chunk_size == forward_align(chunk_size, chunk_align)
        P == [mem |-> [w \in 0 .. capacity \div WordSize - 1 |-> Uninit],
              aligned_memory |-> aligned_memory, capacity |-> m_capacity,
              chunk_size |-> m_chunk_size, head |-> Null,
              crashed |-> FALSE, oob |-> FALSE]
    IN
    IF chunk_size < PoolNodeSize \/ m_capacity < m_chunk_size
    THEN {[st |-> P, valid |-> FALSE]}
    ELSE {[st |-> P2, valid |-> ~P2.crashed] : P2 \in Pool_free_all(P)}

\* free with the upper half of the range check of line 431 left out.
Pool_free_no_upper_bound(P, ptr) ==
    IF ptr = Null THEN {Ret(P, FALSE)}
    ELSE
    LET chunk == ptr
        start == P.aligned_memory
    IN
    IF chunk < start THEN {Ret(P, FALSE)}
    ELSE
    LET node == chunk IN
    { IF P2.crashed THEN Ret(P2, FALSE) ELSE Ret([P2 EXCEPT !.head = node], TRUE)
      : P2 \in PoolStores(P, node, P.head) }

Pool_free(P, ptr) ==
    IF ptr = Null THEN {Ret(P, FALSE)}
    ELSE
    LET chunk == ptr
        start == P.aligned_memory
        end == (start + P.capacity) % SizeModulus
    IN
    IF chunk < start \/ chunk > end THEN {Ret(P, FALSE)}
    ELSE
    LET node == chunk IN
    { IF P2.crashed THEN Ret(P2, FALSE) ELSE Ret([P2 EXCEPT !.head = node], TRUE)
      : P2 \in PoolStores(P, node, P.head) }

\* alloc without the pop of line 443: the head stays where it was.
Pool_alloc_no_pop(P) ==
    LET node == P.head IN
    IF node = Null THEN {Ret(P, Null)}
    ELSE
    UNION {
        IF nx.fault THEN {Ret(Crash(P), Null)}
        ELSE { Ret(P2, IF P2.crashed THEN Null ELSE node)
               : P2 \in PoolMemset0(P, node, P.chunk_size) }
        : nx \in PoolLoads(P, node) }

Pool_alloc(P) ==
    LET node == P.head IN
    IF node = Null THEN {Ret(P, Null)}
    ELSE
    UNION {
        IF nx.fault THEN {Ret(Crash(P), Null)}
        ELSE { Ret(P2, IF P2.crashed THEN Null ELSE node)
               : P2 \in PoolMemset0([P EXCEPT !.head = nx.val], node, P.chunk_size) }
        : nx \in PoolLoads(P, node) }

----------------------------------------------------------------------------
(* Pool: the caller *)

\* The buffers, chunk sizes and chunk alignments the caller constructs a Pool with.
PoolCapacities == {4, 32}
PoolChunkSizes == {4, 8, 16}
PoolChunkAligns == {8, 16}

\* Frees of addresses the caller does not hold, per run.
MaxPoolStrayFrees == 1

\* Addresses outside the buffer.
PoolLow == PoolMemory - WordSize
PoolHigh == PoolMemory + p_cfg.capacity + WordSize

\* The addresses the caller passes to free: every word of the buffer (chunks it
\* holds, chunks it does not, addresses inside a chunk, the skipped bytes in
\* front of the first chunk), the end of the buffer, null and addresses outside.
PoolAddrs == {PoolMemory + k * WordSize : k \in 0 .. p_cfg.capacity \div WordSize}
             \cup {Null, PoolLow, PoolHigh}

NumChunks(P) == P.capacity \div P.chunk_size

\* a is the start of one of the chunk slots.
IsSlot(P, a) ==
    /\ a >= P.aligned_memory
    /\ (a - P.aligned_memory) % P.chunk_size = 0
    /\ (a - P.aligned_memory) \div P.chunk_size < NumChunks(P)

\* What the address is to the caller at the time of a call.
PoolKind(a) ==
    IF a = Null THEN "null"
    ELSE IF a \in p_out THEN "held"
    ELSE IF a < p_aligned_memory \/ a > (p_aligned_memory + p_capacity) % SizeModulus
    THEN "outside"
    ELSE IF a = (p_aligned_memory + p_capacity) % SizeModulus THEN "end"
    ELSE IF IsSlot(PoolRec, a) THEN "slot"
    ELSE "interior"

\* The free list as get_num_free_pool_chunks walks it, for at most fuel nodes;
\* the walk also ends at a node outside the buffer or never stored to.
RECURSIVE PoolWalk(_, _, _)
PoolWalk(P, node, fuel) ==
    IF node = Null \/ fuel = 0 \/ ~InPool(P, node) THEN <<>>
    ELSE <<node>> \o (IF P.mem[PoolIx(node)] = Uninit THEN <<>>
                      ELSE PoolWalk(P, P.mem[PoolIx(node)], fuel - 1))

\* The node the walk of at most fuel nodes stops in front of (null at the end
\* of a well-formed list).
RECURSIVE PoolWalkEnd(_, _, _)
PoolWalkEnd(P, node, fuel) ==
    IF node = Null \/ fuel = 0 \/ ~InPool(P, node) THEN node
    ELSE IF P.mem[PoolIx(node)] = Uninit THEN Uninit
    ELSE PoolWalkEnd(P, P.mem[PoolIx(node)], fuel - 1)

\* One more node than the buffer has words: a list without a cycle is shorter.
PoolFuel(P) == Cardinality(DOMAIN P.mem) + 1

FreeList(P) == PoolWalk(P, P.head, PoolFuel(P))

\* The free list ends at null and no node is on it twice.
FreeListAcyclic(P) ==
    /\ PoolWalkEnd(P, P.head, PoolFuel(P)) = Null
    /\ Len(FreeList(P)) < PoolFuel(P)
    /\ \A i, j \in DOMAIN FreeList(P) : FreeList(P)[i] = FreeList(P)[j] => i = j

PoolNoCall == [op |-> "none", addr |-> Null, kind |-> "null", ret |-> Null, freed |-> FALSE]

PoolCall(op, addr, ret, freed) ==
    [op |-> op, addr |-> addr, kind |-> PoolKind(addr), ret |-> ret, freed |-> freed]

\* The state the constructor leaves, for the arguments the caller may pass.
InitPoolWith(capacities, chunk_sizes, chunk_aligns) ==
    \E capacity \in capacities, chunk_size \in chunk_sizes, chunk_align \in chunk_aligns :
    \E r \in Pool_Pool(capacity, chunk_size, chunk_align) :
        /\ p_cfg = [capacity |-> capacity, chunk_size |-> chunk_size,
                    chunk_align |-> chunk_align]
        /\ p_memory = r.st.mem
        /\ p_aligned_memory = r.st.aligned_memory
        /\ p_capacity = r.st.capacity
        /\ p_chunk_size = r.st.chunk_size
        /\ p_head = r.st.head
        /\ p_valid = r.valid
        /\ p_crashed = r.st.crashed
        /\ p_oob = r.st.oob
        /\ p_out = {}
        /\ p_misused = FALSE
        /\ p_frees = MaxPoolStrayFrees
        /\ p_relinked = FALSE
        /\ p_last = PoolNoCall

InitPool == InitPoolWith(PoolCapacities, PoolChunkSizes, PoolChunkAligns)

\* One Pool: two chunks of two words.
InitPoolOne == InitPoolWith({32}, {16}, {8})

SetPool(P) ==
    /\ p_memory' = P.mem
    /\ p_aligned_memory' = P.aligned_memory
    /\ p_capacity' = P.capacity
    /\ p_chunk_size' = P.chunk_size
    /\ p_head' = P.head
    /\ p_crashed' = P.crashed
    /\ p_oob' = P.oob

\* alloc, and the caller writing its data into the chunk it obtained.
PoolAlloc ==
    /\ ~p_crashed
    /\ p_valid
    /\ \E r \in Pool_alloc(PoolRec) :
        IF r.ret = Null /\ r.st = PoolRec THEN UNCHANGED vars
        ELSE
        /\ SetPool(IF r.ret = Null THEN r.st
                   ELSE [r.st EXCEPT !.mem = PoolFill(r.st.mem, r.ret, r.st.chunk_size,
                                                      Pattern(0))])
        /\ p_last' = PoolCall("alloc", Null, r.ret, FALSE)
        /\ p_out' = IF r.ret = Null THEN p_out ELSE p_out \cup {r.ret}
        /\ UNCHANGED <<p_cfg, p_valid, p_misused, p_frees, p_relinked>>

PoolFree(addr) ==
    /\ ~p_crashed
    /\ p_valid
    /\ \E r \in Pool_free(PoolRec, addr) :
        IF ~r.ret /\ r.st = PoolRec THEN UNCHANGED vars
        ELSE
        /\ addr \in p_out \/ p_frees > 0
        /\ p_frees' = IF addr \in p_out THEN p_frees ELSE p_frees - 1
        /\ p_misused' = (p_misused \/ addr \notin p_out)
        /\ SetPool(r.st)
        /\ p_last' = PoolCall("free", addr, Null, r.ret)
        /\ p_out' = IF r.ret THEN p_out \ {addr} ELSE p_out
        /\ UNCHANGED <<p_cfg, p_valid, p_relinked>>

\* free_all: the caller holds no chunk afterwards.
PoolFreeAll ==
    /\ ~p_crashed
    /\ p_valid
    /\ \E P2 \in Pool_free_all(PoolRec) :
        /\ SetPool(P2)
        /\ p_last' = PoolCall("free_all", Null, Null, FALSE)
        /\ p_out' = {}
        /\ p_relinked' = (p_relinked \/ p_head # Null)
        /\ UNCHANGED <<p_cfg, p_valid, p_misused, p_frees>>

----------------------------------------------------------------------------
(* The alignment primitives applied to arguments *)

\* The arguments: every base up to MaxBase, the powers of two up to
\* 2^MaxAlignLog2, every header size up to MaxHeaderSize.
MaxBase == 40
MaxAlignLog2 == 4
MaxHeaderSize == 33

FnAligns == {2 ^ k : k \in 0 .. MaxAlignLog2}

FnNoCall == [op |-> "none", ret |-> 0]

InitFn(bases, aligns, header_sizes) ==
    /\ f_base \in bases
    /\ f_align \in aligns
    /\ f_header_size \in header_sizes
    /\ f_last = FnNoCall

\* The other specifications do not call the primitives from outside.
InitFnOne == InitFn({0}, {1}, {0})

FnForwardAlign ==
    /\ f_last' = [op |-> "forward_align", ret |-> forward_align(f_base, f_align)]
    /\ UNCHANGED <<f_base, f_align, f_header_size, stackVars, arenaVars, poolVars>>

FnCalcPadding ==
    /\ f_last' = [op |-> "calc_padding_with_header",
                  ret |-> calc_padding_with_header(f_base, f_align, f_header_size)]
    /\ UNCHANGED <<f_base, f_align, f_header_size, stackVars, arenaVars, poolVars>>

\* is_power_of_two applied to the argument base; a bool is 1 or 0.
FnIsPowerOfTwo ==
    /\ f_last' = [op |-> "is_power_of_two",
                  ret |-> IF is_power_of_two(f_base) THEN 1 ELSE 0]
    /\ UNCHANGED <<f_base, f_align, f_header_size, stackVars, arenaVars, poolVars>>

----------------------------------------------------------------------------
(* Specifications *)

StackNext ==
    /\ \/ \E size \in StackSizes, align \in StackAligns : StackAlloc(size, align)
       \/ \E addr \in StackAddrs : StackFree(addr)
       \/ \E addr \in StackAddrs, new_size \in StackNewSizes : StackResize(addr, new_size)
       \/ StackReset
    /\ UNCHANGED <<arenaVars, poolVars, fnVars>>

\* The caller that uses one size and one alignment, and never resets.
StackUniformNext ==
    /\ \/ StackAlloc(WordSize, WordSize)
       \/ \E addr \in StackAddrs : StackFree(addr)
       \/ \E addr \in StackAddrs : StackResize(addr, WordSize)
    /\ UNCHANGED <<arenaVars, poolVars, fnVars>>

ArenaNext ==
    /\ \/ \E bytes \in ArenaSizes, align \in ArenaAligns : ArenaAlloc(bytes, align)
       \/ \E addr \in ArenaAddrs, new_size \in ArenaNewSizes : ArenaResize(addr, new_size)
       \/ ArenaReset
    /\ UNCHANGED <<poolVars, fnVars>>

PoolNext ==
    /\ \/ PoolAlloc
       \/ \E addr \in PoolAddrs : PoolFree(addr)
       \/ PoolFreeAll
    /\ UNCHANGED <<stackVars, arenaVars, fnVars>>

FnNext == FnForwardAlign \/ FnCalcPadding \/ FnIsPowerOfTwo

\* The alignments the caller of the wide buffer asks for.
StackWideAligns == {8, 256}

\* The caller of the wide buffer: it allocates, frees and resets.
StackWideNext ==
    /\ \/ \E size \in StackSizes, align \in StackWideAligns : StackAlloc(size, align)
       \/ \E addr \in StackAddrs : StackFree(addr)
       \/ StackReset
    /\ UNCHANGED <<arenaVars, poolVars, fnVars>>

\* The caller that only calls alloc() and free(addr).
PoolAllocFreeNext ==
    /\ \/ PoolAlloc
       \/ \E addr \in PoolAddrs : PoolFree(addr)
    /\ UNCHANGED <<stackVars, arenaVars, fnVars>>

\* Successful allocations per run, of Stack and of Arena, in the specification
\* of the three allocators together.
MaxEachAllocs == 2

\* The three allocators share nothing (each test of main has its own): a
\* behaviour drives one of them and leaves the other two as constructed.
EachNext ==
    \/ StackNext /\ a_last = ArenaNoCall /\ p_last = PoolNoCall
    \/ ArenaNext /\ s_last = NoCall /\ p_last = PoolNoCall
    \/ PoolNext /\ s_last = NoCall /\ a_last = ArenaNoCall

Init == InitStack(MaxStackAllocs, MaxStackResizes) /\ InitArena /\ InitPoolOne /\ InitFnOne

InitUniform == InitStack(MaxUniformAllocs, 1) /\ InitArena /\ InitPoolOne /\ InitFnOne

InitEach ==
    /\ InitStack(MaxEachAllocs, 1) /\ InitArenaWith(MaxEachAllocs, 1)
    /\ InitPoolOne /\ InitFnOne

InitPools == InitStack(MaxStackAllocs, MaxStackResizes) /\ InitArena /\ InitPool /\ InitFnOne

InitFns ==
    /\ InitStack(MaxStackAllocs, MaxStackResizes) /\ InitArena /\ InitPoolOne
    /\ InitFn(0 .. MaxBase, FnAligns, 0 .. MaxHeaderSize)

SpecStack == Init /\ [][StackNext]_vars

SpecStackUniform == InitUniform /\ [][StackUniformNext]_vars

SpecArena == Init /\ [][ArenaNext]_vars

SpecPool == InitPools /\ [][PoolNext]_vars

SpecFn == InitFns /\ [][FnNext]_vars

InitWide ==
    /\ InitStackWith(WideCapacityWords, MaxWideAllocs, 0)
    /\ InitArena /\ InitPoolOne /\ InitFnOne

SpecStackWide == InitWide /\ [][StackWideNext]_vars

SpecPoolAllocFree == InitPools /\ [][PoolAllocFreeNext]_vars

SpecEach == InitEach /\ [][EachNext]_vars

\* ---------------------------------------------------------------------------
\* Properties of Stack
\* ---------------------------------------------------------------------------

\* The process has not faulted.
StackRunning == ~s_crashed

\* The process has not faulted and no call has yet touched memory outside the buffer.
StackSound == ~s_crashed /\ ~s_oob

\* The caller has only allocated, and then only freed its newest allocation.
LifoSoFar == StackSound /\ s_last.phase \in {"allocs", "frees"}

StackIsEmpty == s_offset = 0 /\ s_prev_offset = 0 /\ s_prev_header = Null

\* C1: while allocations (of any size >= 0) are freed newest first, free of
\* the newest one returns true, and once all are freed offset, prev_offset and
\* prev_header are back at 0 / null.
C1_LifoFreesSucceed ==
    LifoSoFar =>
        /\ s_live # <<>> => \A r \in Stack_free(StackRec, Top(s_live).addr) : r.ret
        /\ s_live = <<>> => StackIsEmpty

\* What the code does keep of C1: the same with every size positive.
C1_LifoFreesSucceedPositive ==
    (LifoSoFar /\ \A i \in DOMAIN s_live : s_live[i].size > 0) =>
        /\ s_live # <<>> => \A r \in Stack_free(StackRec, Top(s_live).addr) : r.ret
        /\ s_live = <<>> => StackIsEmpty

\* C2: free of a live allocation that is not the newest, of null, of an
\* address outside the buffer or of an address at or past memory + offset
\* returns false and changes nothing.
C2_RejectedFreeChangesNothing ==
    StackSound => \A a \in StackAddrs :
        Kind(a) \in {"nontop", "null", "outside", "unallocated"} =>
            \A r \in Stack_free(StackRec, a) : ~r.ret /\ r.st = StackRec

\* C3: once resize_aligned has moved a block that was not the newest, free of
\* the old address returns false, whatever was freed in between.
C3_RetiredFreeFails ==
    StackSound => \A x \in s_retired : \A r \in Stack_free(StackRec, x.addr) : ~r.ret

\* C4: with C the block directly above a moved block B, once everything above
\* C has been freed newest first, free(C) returns true and leaves offset at the
\* prev_offset B had, the start of the gap below B.
C4_FreeAboveRetiredReclaimsGap ==
    (StackSound /\ s_live # <<>> /\ Top(s_live).folded) =>
        \A r \in Stack_free(StackRec, Top(s_live).addr) :
            r.ret /\ r.st.offset = Top(s_live).before

\* What the code does keep of C4: the same with C of positive size.
C4_FreeAboveRetiredReclaimsGapPositive ==
    (StackSound /\ s_live # <<>> /\ Top(s_live).folded /\ Top(s_live).size > 0) =>
        \A r \in Stack_free(StackRec, Top(s_live).addr) :
            r.ret /\ r.st.offset = Top(s_live).before

\* C5: resize_aligned on the old address of a block that was already moved
\* returns null and changes nothing.
C5_RetiredResizeRejected ==
    StackRunning => \A x \in s_retired : \A n \in StackNewSizes \ {0} :
        \A r \in Stack_resize_aligned(StackRec, x.addr, x.size, n, x.align) :
            r.ret = Null /\ r.st = StackRec

\* A block has just been moved and its old address is still below memory + offset.
C5_Witness ==
    /\ StackSound
    /\ s_last.op = "resize"
    /\ s_last.kind = "nontop"
    /\ s_last.ret # Null
    /\ \E x \in s_retired : x.addr = s_last.addr /\ x.addr < StackMemory + s_offset

\* C6: a resize of a block that is not the newest whose new block does not fit
\* returns null and leaves the allocator's fields and every header unchanged.
C6_FailedResizeChangesNothing ==
    StackSound => \A a \in LiveAddrs : \A n \in StackNewSizes \ {0} :
        (/\ Kind(a) = "nontop"
         /\ \A q \in Stack_alloc_aligned(StackRec, n, LiveRec(a).align) : q.ret = Null) =>
            \A r \in Stack_resize_aligned(StackRec, a, LiveRec(a).size, n, LiveRec(a).align) :
                r.ret = Null /\ r.st = StackRec

\* ---------------------------------------------------------------------------
\* Properties of Arena, and of Arena and Stack together
\* ---------------------------------------------------------------------------

\* The process has not faulted.
ArenaRunning == ~a_crashed

\* The process has not faulted and no call has yet touched memory outside the buffer.
ArenaSound == ~a_crashed /\ ~a_oob

\* The caller has kept to the addresses it holds (section 6 of the
\* specification: no reference to a region a reset or a resize invalidated).
ArenaHonest == ~a_misused

\* C7: a successful alloc_aligned of Arena or Stack returns a multiple of align,
\* and the region it returns lies inside the buffer and overlaps no region the
\* caller still holds from an earlier alloc_aligned.
C7_AllocationsAlignedInsideDisjoint ==
    /\ (ArenaSound /\ ArenaHonest /\ a_last.op = "alloc" /\ a_last.ret # Null) =>
            /\ a_last.ret % a_last.align = 0
            /\ a_last.ret >= ArenaMemory
            /\ a_last.ret + a_last.size <= ArenaMemory + ArenaCapacity
            /\ ~a_last.overlap
    /\ (StackSound /\ s_last.op = "alloc" /\ s_last.ret # Null) =>
            /\ s_last.ret % s_last.align = 0
            /\ s_last.ret >= StackMemory
            /\ s_last.ret + s_last.size <= StackMemory + StackCapacity
            /\ ~s_last.overlap

\* C8: 0 <= offset <= capacity in every state of Arena and of Stack, also after
\* resize_aligned has grown the most recent (top) allocation.
C8_OffsetWithinCapacity ==
    /\ ArenaRunning => (0 <= a_offset /\ a_offset <= ArenaCapacity)
    /\ StackRunning => (0 <= s_offset /\ s_offset <= StackCapacity)

\* C9: resize_aligned of the address the most recent successful alloc_aligned
\* returned gives back that same address, whatever the alignment and the
\* offset the allocation was made at.
C9_RecentResizeInPlace ==
    (ArenaSound /\ ArenaHonest /\ a_last.op = "alloc" /\ a_last.ret # Null) =>
        \A n \in ArenaNewSizes :
            \A r \in Arena_resize_aligned(ArenaRec, a_last.ret, a_last.size, n, a_last.align) :
                r.ret = a_last.ret

\* The allocations the caller holds that are not the most recent one.
ArenaEarlier == {a_live[i] : i \in 1 .. Len(a_live) - 1}

\* C10: resize_aligned of an allocation that is not the most recent one returns
\* null, with offset and prev_offset unchanged, exactly when
\* alloc_aligned(new_size, align) would fail; otherwise it returns what that
\* alloc_aligned returns: a fresh aligned address at or after the old offset,
\* with offset and prev_offset advanced the same way and the first
\* min(old_size, new_size) bytes equal to the old contents.
C10_EarlierResizeMovesOrFails ==
    (ArenaRunning /\ ArenaHonest) =>
        \A a \in ArenaEarlier : \A n \in ArenaNewSizes :
            a.size > 0 =>
                \A r \in Arena_resize_aligned(ArenaRec, a.addr, a.size, n, a.align) :
                \A q \in Arena_alloc_aligned(ArenaRec, n, a.align) :
                    IF q.ret = Null
                    THEN r.ret = Null /\ r.st.offset = a_offset
                         /\ r.st.prev_offset = a_prev_offset
                    ELSE /\ r.ret = q.ret
                         /\ r.ret # a.addr
                         /\ r.ret >= ArenaMemory + a_offset
                         /\ r.ret % a.align = 0
                         /\ r.st.prev_offset = a_offset
                         /\ r.st.offset = (r.ret - ArenaMemory) + n
                         /\ r.st.offset = q.st.offset
                         /\ r.st.prev_offset = q.st.prev_offset
                         /\ \A k \in 0 .. (IF a.size < n THEN a.size ELSE n) - 1 :
                                r.st.mem[r.ret - ArenaMemory + k]
                                    = a_bytes[a.addr - ArenaMemory + k]

\* An earlier allocation has just been moved, and the caller holds another
\* earlier allocation for which a new size no longer fits.
C10_Witness ==
    /\ ArenaSound
    /\ ArenaHonest
    /\ a_last.op = "resize"
    /\ a_last.kind = "earlier"
    /\ a_last.ret \notin {Null, a_last.addr}
    /\ a_last.size > 1
    /\ \E a \in ArenaEarlier : \E n \in ArenaNewSizes :
        /\ a.size > 0
        /\ \A r \in Arena_resize_aligned(ArenaRec, a.addr, a.size, n, a.align) : r.ret = Null

\* The sizes of the requests that may fail: 0, sizes that fit an empty buffer
\* and sizes that never fit.
ArenaAnySizes == {0, 1, 2, 4, ArenaCapacity, 2 * ArenaCapacity}

\* aligned_offset + bytes for a request made in the current state.
ArenaNextOffset(bytes, align) ==
    forward_align(ArenaMemory + a_offset, align) - ArenaMemory + bytes

\* C11: every failing call of Arena returns null and leaves offset, prev_offset
\* and the buffer contents unchanged: alloc_aligned with bytes == 0 or with
\* aligned_offset + bytes > capacity; resize_aligned with a null old address,
\* with old_size == 0, or with an old address outside [memory, memory+capacity].
C11_ArenaFailuresChangeNothing ==
    ArenaRunning =>
        /\ \A bytes \in ArenaAnySizes, align \in ArenaAligns :
            (bytes = 0 \/ ArenaNextOffset(bytes, align) > ArenaCapacity) =>
                \A r \in Arena_alloc_aligned(ArenaRec, bytes, align) :
                    r.ret = Null /\ r.st = ArenaRec
        /\ \A addr \in {Null, ArenaLow, ArenaHigh}, old_size \in ArenaSizes,
              new_size \in ArenaNewSizes, align \in ArenaAligns :
            \A r \in Arena_resize_aligned(ArenaRec, addr, old_size, new_size, align) :
                r.ret = Null /\ r.st = ArenaRec
        /\ \A addr \in ArenaAddrs, new_size \in ArenaNewSizes, align \in ArenaAligns :
            \A r \in Arena_resize_aligned(ArenaRec, addr, 0, new_size, align) :
                r.ret = Null /\ r.st = ArenaRec

\* The caller holds data in the buffer, prev_offset and offset differ, a
\* request of positive size does not fit any more and one still does.
C11_Witness ==
    /\ ArenaSound
    /\ a_live # <<>>
    /\ a_prev_offset # a_offset
    /\ \E k \in ArenaBytes : a_bytes[k] = Pattern(0)
    /\ \E bytes \in ArenaAnySizes \ {0}, align \in ArenaAligns :
        /\ ArenaNextOffset(bytes, align) > ArenaCapacity
        /\ ArenaNextOffset(1, align) <= ArenaCapacity
        /\ \A r \in Arena_alloc_aligned(ArenaRec, bytes, align) : r.ret = Null

\* ---------------------------------------------------------------------------
\* Properties of Pool, and of the three allocators together
\* ---------------------------------------------------------------------------

\* The process has not faulted.
PoolRunning == ~p_crashed

\* The process has not faulted and no call has yet touched memory outside the buffer.
PoolSound == ~p_crashed /\ ~p_oob

\* The caller has only freed chunks it held.
PoolHonest == ~p_misused

\* Every word of [p, p+n) of the Stack buffer is zero.
StackZeroAt(mem, p, n) ==
    \A w \in StackWords :
        (StackMemory + w * WordSize >= p /\ StackMemory + w * WordSize < p + n) => mem[w] = 0

\* Every word of [p, p+n) of the Pool buffer is zero.
PoolZeroAt(mem, p, n) ==
    \A w \in DOMAIN mem :
        (PoolMemory + w * WordSize >= p /\ PoolMemory + w * WordSize < p + n) => mem[w] = 0

\* C12: the region a successful Arena::alloc_aligned, Stack::alloc_aligned or
\* Pool::alloc returns is entirely zero when it is returned, whatever the
\* buffer held there before: the caller's data from before a reset, free or
\* free_all, a stack header, a free-list node.
C12_ReturnedRegionsZeroed ==
    /\ ArenaRunning =>
        \A bytes \in ArenaSizes \cup ArenaNewSizes \cup {ArenaCapacity}, align \in ArenaAligns :
            \A r \in Arena_alloc_aligned(ArenaRec, bytes, align) :
                (r.ret # Null /\ ~r.st.crashed) =>
                    \A k \in 0 .. bytes - 1 : r.st.mem[r.ret - ArenaMemory + k] = 0
    /\ StackRunning =>
        \A size \in StackSizes \cup StackNewSizes, align \in StackAligns :
            \A r \in Stack_alloc_aligned(StackRec, size, align) :
                (r.ret # Null /\ ~r.st.crashed) => StackZeroAt(r.st.mem, r.ret, size)
    /\ (PoolRunning /\ p_valid) =>
        \A r \in Pool_alloc(PoolRec) :
            (r.ret # Null /\ ~r.st.crashed /\ RangeInPool(PoolRec, r.ret, p_chunk_size)) =>
                PoolZeroAt(r.st.mem, r.ret, p_chunk_size)

\* Pool: the chunk at the head of the free list was just given back; its first
\* word holds the free-list node and its second word the caller's data.
C12_Witness ==
    /\ PoolSound /\ PoolHonest /\ p_valid
    /\ p_last.op = "free" /\ p_last.kind = "held" /\ p_last.freed
    /\ p_head = p_last.addr
    /\ p_chunk_size > PoolNodeSize
    /\ InPool(PoolRec, p_head)
    /\ p_memory[PoolIx(p_head)] \notin {0, Uninit}
    /\ p_memory[PoolIx(p_head) + 1] = Pattern(0)
    /\ \A r \in Pool_alloc(PoolRec) : r.ret = p_head

\* Stack: after a reset, a request whose region covers a word that held a header.
C12_WitnessStack ==
    /\ StackSound
    /\ s_last.op = "reset"
    /\ \E size \in StackSizes \ {0}, align \in StackAligns :
        \E r \in Stack_alloc_aligned(StackRec, size, align) :
            /\ r.ret # Null
            /\ s_memory[WordIx(r.ret)] \notin {0, Uninit}

\* Arena: after a reset, a request whose region covers the caller's old data.
C12_WitnessArena ==
    /\ ArenaSound
    /\ a_last.op = "reset"
    /\ \E bytes \in ArenaSizes \ {0}, align \in ArenaAligns :
        \E r \in Arena_alloc_aligned(ArenaRec, bytes, align) :
            /\ r.ret # Null
            /\ a_bytes[r.ret - ArenaMemory] = Pattern(0)

\* How many alloc() calls in a row succeed from P before one returns null,
\* counting at most fuel of them: one number per way the calls can go.
RECURSIVE PoolAllocCounts(_, _)
PoolAllocCounts(P, fuel) ==
    IF fuel = 0 THEN {0}
    ELSE UNION { IF r.ret = Null THEN {0}
                 ELSE {1 + c : c \in PoolAllocCounts(r.st, fuel - 1)}
                 : r \in Pool_alloc(P) }

\* The free list of P holds every chunk slot exactly once and ends at null, so
\* exactly num_chunks alloc() calls succeed and the next returns null.
FreeListFull(P) ==
    /\ FreeListAcyclic(P)
    /\ Len(FreeList(P)) = NumChunks(P)
    /\ \A i \in DOMAIN FreeList(P) : IsSlot(P, FreeList(P)[i])
    /\ PoolAllocCounts(P, NumChunks(P) + 2) = {NumChunks(P)}

\* C13: free_all() called in any reachable state (free list empty, partly full
\* or full) leaves a free list that is finite, acyclic and holds each of the
\* num_chunks chunk slots exactly once, so exactly num_chunks further alloc()
\* calls succeed and the next returns null.
C13_FreeAllRebuildsFreeList ==
    (PoolSound /\ PoolHonest /\ p_valid) =>
        \A P2 \in Pool_free_all(PoolRec) : ~P2.crashed /\ FreeListFull(P2)

\* What the code does keep of C13: free_all() called while the free list is empty.
C13_FreeAllFromEmptyList ==
    (PoolSound /\ PoolHonest /\ p_valid /\ p_head = Null) =>
        \A P2 \in Pool_free_all(PoolRec) : ~P2.crashed /\ FreeListFull(P2)

\* The free list and the chunks the caller holds account for every chunk:
\* alloc() takes the head off the list, or returns null when the caller holds
\* num_chunks chunks; free of a chunk the caller holds puts it at the head.
PoolAccountsForChunks ==
    /\ FreeListAcyclic(PoolRec)
    /\ Len(FreeList(PoolRec)) + Cardinality(p_out) = NumChunks(PoolRec)
    /\ \A r \in Pool_alloc(PoolRec) :
        IF Cardinality(p_out) = NumChunks(PoolRec) THEN r.ret = Null
        ELSE /\ r.ret = p_head
             /\ r.ret \notin p_out
             /\ FreeList(r.st) = Tail(FreeList(PoolRec))
    /\ \A a \in p_out : \A r \in Pool_free(PoolRec, a) :
        r.ret /\ FreeList(r.st) = <<a>> \o FreeList(PoolRec)

\* C14: after a successful construction the free list has floor(capacity /
\* chunk_size) entries; each alloc() removes one and each free of a chunk
\* obtained from alloc adds it back, so that free-list length + outstanding
\* chunks stays num_chunks; with num_chunks chunks outstanding alloc() returns
\* null.
C14_FreeListCountsChunks ==
    (PoolSound /\ PoolHonest /\ p_valid) => PoolAccountsForChunks

\* What the code does keep of C14: the same as long as free_all() has not run
\* on a free list that was not empty.
C14_FreeListCountsChunksNotRelinked ==
    (PoolSound /\ PoolHonest /\ p_valid /\ ~p_relinked) => PoolAccountsForChunks

\* The addresses on the free list of P: the nodes of the walk and the address
\* the walk stops in front of, unless that is null.
FreeListAddrs(P) ==
    {FreeList(P)[i] : i \in DOMAIN FreeList(P)}
    \cup ({PoolWalkEnd(P, P.head, PoolFuel(P))} \ {Null})

\* a is aligned_memory + i * chunk_size with 0 <= i < num_chunks, and a
\* multiple of chunk_align.
IsAlignedSlot(a) == IsSlot(PoolRec, a) /\ a % p_cfg.chunk_align = 0

\* Every address on the free list and the address alloc() returns are chunk slots.
PoolAddressesAreSlots ==
    /\ \A a \in FreeListAddrs(PoolRec) : IsAlignedSlot(a)
    /\ \A r \in Pool_alloc(PoolRec) : (r.ret # Null /\ ~r.st.crashed) => IsAlignedSlot(r.ret)
    /\ (p_last.op = "alloc" /\ p_last.ret # Null) => IsAlignedSlot(p_last.ret)

\* C15: after any sequence of alloc(), free(addr) and free_all() calls, every
\* address on the free list and every address alloc() returns is
\* aligned_memory + i * chunk_size with 0 <= i < num_chunks, and a multiple of
\* chunk_align.
C15_FreeListAddressesAreSlots ==
    (PoolSound /\ p_valid) => PoolAddressesAreSlots

\* What the code does keep of C15: the same for a caller that frees only chunks
\* it holds, as long as free_all() has not run on a free list that was not empty.
C15_FreeListAddressesAreSlotsHonest ==
    (PoolSound /\ p_valid /\ PoolHonest /\ ~p_relinked) => PoolAddressesAreSlots

\* aligned_memory + capacity, in pointer arithmetic.
PoolEnd == (p_aligned_memory + p_capacity) % SizeModulus

\* Addresses below aligned_memory and above aligned_memory + capacity: next to
\* the range and far from it, among them the skipped bytes in front of the
\* first chunk.
PoolOutside ==
    {a \in PoolAddrs \cup {p_aligned_memory - 1, PoolEnd + 1,
                           PoolMemory - 2 * WordSize, PoolEnd + 4 * WordSize} :
        a # Null /\ (a < p_aligned_memory \/ a > PoolEnd)}

\* C16: free(null), and free(addr) with addr < aligned_memory or
\* addr > aligned_memory + capacity, return false and leave free_list_head and
\* the contents of every chunk unchanged.
C16_RejectedPoolFreeChangesNothing ==
    PoolRunning =>
        \A a \in {Null} \cup PoolOutside :
            \A r \in Pool_free(PoolRec, a) : ~r.ret /\ r.st = PoolRec

\* The caller holds a chunk with its data in it, the free list is not empty,
\* and the first chunk does not start at the start of the buffer.
C16_Witness ==
    /\ PoolSound /\ PoolHonest /\ p_valid
    /\ p_last.op = "alloc" /\ p_last.ret # Null
    /\ p_memory[PoolIx(p_last.ret)] = Pattern(0)
    /\ p_head # Null
    /\ p_aligned_memory > PoolMemory
    /\ PoolMemory \in PoolOutside
    /\ PoolHigh \in PoolOutside

\* The bytes the constructor skips to reach chunk_align.
PoolWaste == forward_align(PoolMemory, p_cfg.chunk_align) - PoolMemory

\* The usable capacity, computed in size_t arithmetic.
PoolUsable == (p_cfg.capacity - PoolWaste) % SizeModulus

\* The chunk size rounded up to chunk_align.
PoolRounded == forward_align(p_cfg.chunk_size, p_cfg.chunk_align)

\* The constructor has set the flag to false, left the free list empty and
\* stored nothing in the buffer.
PoolLeftEmpty ==
    /\ ~p_crashed /\ ~p_oob
    /\ ~p_valid
    /\ p_head = Null
    /\ \A w \in DOMAIN p_memory : p_memory[w] = Uninit

\* C17: the constructor sets the validity flag to false, leaves the free list
\* empty and writes no byte of the buffer whenever the requested chunk_size is
\* smaller than a free-list node or the usable capacity is smaller than one
\* rounded chunk, also when the raw capacity is smaller than the bytes skipped
\* to reach chunk_align.
C17_BadConstructionLeavesPoolEmpty ==
    (/\ p_last.op = "none"
     /\ \/ p_cfg.chunk_size < PoolNodeSize
        \/ PoolUsable < PoolRounded
        \/ p_cfg.capacity < PoolWaste) => PoolLeftEmpty

\* What the code does keep of C17: the same without the case of a raw capacity
\* smaller than the skipped bytes, where the subtraction wraps.
C17_BadConstructionLeavesPoolEmptyNoWrap ==
    (/\ p_last.op = "none"
     /\ \/ p_cfg.chunk_size < PoolNodeSize
        \/ PoolUsable < PoolRounded) => PoolLeftEmpty

\* ---------------------------------------------------------------------------
\* Properties of the alignment primitives
\* ---------------------------------------------------------------------------

\* C18: calc_padding_with_header(base, align, header_size), for every base,
\* every power-of-two align and every header_size >= 0, returns the smallest
\* p >= 0 with (base + p) mod align = 0 and p >= header_size.
C18_PaddingIsSmallestWithHeader ==
    f_last.op = "calc_padding_with_header" =>
        LET p == f_last.ret IN
        /\ p >= 0
        /\ (f_base + p) % f_align = 0
        /\ p >= f_header_size
        /\ \A q \in 0 .. p - 1 : ~((f_base + q) % f_align = 0 /\ q >= f_header_size)

\* The header does not fit the padding up to the next boundary, and what is
\* missing is not a multiple of align.
C18_Witness ==
    /\ f_last.op = "calc_padding_with_header"
    /\ f_base % f_align # 0
    /\ f_header_size > AlignPadding(f_base, f_align)
    /\ (f_header_size - AlignPadding(f_base, f_align)) % f_align # 0
    /\ f_header_size - AlignPadding(f_base, f_align) > f_align
    /\ f_last.ret > f_header_size

\* C19: forward_align(base, align), for every base and every power-of-two
\* align, returns the smallest r >= base with r mod align = 0: r = base when
\* base is aligned, and r - base < align.
C19_ForwardAlignIsSmallestAligned ==
    f_last.op = "forward_align" =>
        LET r == f_last.ret IN
        /\ r >= f_base
        /\ r % f_align = 0
        /\ r - f_base < f_align
        /\ (f_base % f_align = 0) => r = f_base
        /\ \A x \in f_base .. r - 1 : x % f_align # 0

\* A base that is not aligned and is moved up by more than one.
C19_Witness ==
    /\ f_last.op = "forward_align"
    /\ f_base % f_align # 0
    /\ f_last.ret > f_base + 1

\* A base that is aligned already, to more than one byte.
C19_WitnessAligned ==
    /\ f_last.op = "forward_align"
    /\ f_align > 1
    /\ f_base > 0
    /\ f_base % f_align = 0
    /\ f_last.ret = f_base

\* ---------------------------------------------------------------------------
\* Properties of Stack: resize of a block that is not on top
\* ---------------------------------------------------------------------------

\* The headers of the blocks of live, bottom to top, are linked in that order
\* in S: each one's prev_header is the header below (null for the bottom one),
\* each one's next_header the header above, and prev_header of the Stack is
\* the header of the top one.
HeadersLinked(S, live) ==
    /\ S.prev_header = (IF live = <<>> THEN Null ELSE Top(live).addr - HeaderSize)
    /\ \A i \in DOMAIN live :
        LET header == live[i].addr - HeaderSize IN
        /\ S.mem[WordIx(header + OffPrevHeader)]
              = (IF i = 1 THEN Null ELSE live[i - 1].addr - HeaderSize)
        /\ i < Len(live) =>
              S.mem[WordIx(header + OffNextHeader)] = live[i + 1].addr - HeaderSize

\* The blocks the caller holds once the block at a has been moved to ret.
LiveAfterMove(a, ret, new_size) ==
    LiveAfterAlloc(Without(s_live, a), ret, new_size, LiveRec(a).align, s_offset)

\* resize_aligned of the live block at a to new_size, where the new block fits,
\* touches nothing outside the buffer, returns a fresh address and leaves the
\* headers of the remaining blocks linked in allocation order.
MovesCleanly(a, new_size) ==
    (\E q \in Stack_alloc_aligned(StackRec, new_size, LiveRec(a).align) : q.ret # Null) =>
        \A r \in Stack_resize_aligned(StackRec, a, LiveRec(a).size, new_size, LiveRec(a).align) :
            /\ ~r.st.crashed
            /\ ~r.st.oob
            /\ r.ret # Null
            /\ r.ret \notin LiveAddrs
            /\ HeadersLinked(r.st, LiveAfterMove(a, r.ret, new_size))

\* C20: resize_aligned on any live block that is not on top, the bottom-most
\* one (header.prev_header null) included, completes without a load or store
\* through a null header link, returns a fresh address and leaves the
\* remaining live headers linked in allocation order.
C20_NonTopResizeKeepsLinks ==
    (StackSound /\ HeadersLinked(StackRec, s_live)) =>
        \A a \in LiveAddrs : \A n \in StackNewSizes \ {0} :
            Kind(a) = "nontop" => MovesCleanly(a, n)

\* What the code does keep of C20: the same for the blocks that are neither on
\* top nor at the bottom.
C20_MiddleResizeKeepsLinks ==
    (StackSound /\ HeadersLinked(StackRec, s_live)) =>
        \A a \in LiveAddrs : \A n \in StackNewSizes \ {0} :
            (Kind(a) = "nontop" /\ s_live[1].addr # a) => MovesCleanly(a, n)

\* ---------------------------------------------------------------------------
\* Properties of Stack: the header list and the allocator's view of the top
\* ---------------------------------------------------------------------------

\* The header of the top block of live has next_header == null in S, whatever
\* a load of that field may yield.
TopHeaderEndsList(S, live) ==
    live # <<>> =>
        \A r \in Loads(S, Top(live).addr - HeaderSize + OffNextHeader) :
            ~r.fault /\ r.val = Null

\* C21: in every reachable state the headers of the live allocations form a
\* doubly linked list in allocation order: the bottom header's prev_header is
\* null, the top header (the allocator's prev_header) has next_header == null,
\* and h.next_header.prev_header == h for every other live header h; after
\* alloc_aligned into fresh or previously used memory, after free, and after
\* reset followed by new allocations.
C21_HeadersFormList ==
    StackSound => HeadersLinked(StackRec, s_live) /\ TopHeaderEndsList(StackRec, s_live)

\* What the code does keep of C21: the same without next_header of the top
\* header, as long as the caller has only allocated, freed and reset.
C21_HeadersFormListBelowTop ==
    (StackSound /\ s_resizes = MaxStackResizes) => HeadersLinked(StackRec, s_live)

\* The allocator's prev_header is the header of the top block of live and its
\* prev_offset the prev_offset field of that header; both are 0 / null when no
\* block is live.
TopIsAllocatorsView(S, live) ==
    IF live = <<>> THEN S.prev_offset = 0 /\ S.prev_header = Null
    ELSE /\ S.prev_header = Top(live).addr - HeaderSize
         /\ S.mem[WordIx(Top(live).addr - HeaderSize + OffPrevOffset)] = S.prev_offset

\* free of the top block of live returns true.
TopCanBeFreed(S, live) ==
    live # <<>> => \A r \in Stack_free(S, Top(live).addr) : r.ret

\* C22: in every state reachable by any sequence of alloc_aligned, free,
\* resize_aligned (top, non-top, retired, failing) and reset, the allocator's
\* prev_offset equals the prev_offset field of the header of the top live
\* allocation and its prev_header points to that header, or prev_offset == 0
\* and prev_header == null when no allocation is live; consequently the top
\* live allocation can always be freed.
C22_AllocatorTracksTop ==
    StackSound =>
        /\ TopIsAllocatorsView(StackRec, s_live)
        /\ TopCanBeFreed(StackRec, s_live)

\* What the code does keep of C22: both halves, as long as resize_aligned has
\* changed nothing and every live block has a positive size.
C22_AllocatorTracksTopNoResize ==
    (StackSound /\ s_resizes = MaxStackResizes
       /\ \A i \in DOMAIN s_live : s_live[i].size > 0) =>
        /\ TopIsAllocatorsView(StackRec, s_live)
        /\ TopCanBeFreed(StackRec, s_live)

\* ---------------------------------------------------------------------------
\* Properties of the resize of the most recent allocation in place
\* ---------------------------------------------------------------------------

\* The allocations the caller holds for which resize_aligned takes the path of
\* line 179: memory + prev_offset is their address.
ArenaInPlace == {a_live[i] : i \in {j \in DOMAIN a_live :
                    a_live[j].size > 0 /\ a_live[j].addr = ArenaMemory + a_prev_offset}}

\* C23: when Arena::resize_aligned takes the most-recent fast path with
\* new_size > old_size, the bytes zeroed are exactly
\* [old_addr + old_size, old_addr + new_size); the first old_size bytes keep
\* their contents and no byte at or beyond old_addr + new_size (none at or
\* beyond memory + capacity in particular) is written.
C23_ArenaGrowZeroesTail ==
    (ArenaSound /\ ArenaHonest) =>
        \A a \in ArenaInPlace : \A n \in ArenaNewSizes :
            n > a.size =>
                \A r \in Arena_resize_aligned(ArenaRec, a.addr, a.size, n, a.align) :
                    /\ ~r.st.crashed
                    /\ ~r.st.oob
                    /\ r.ret = a.addr
                    /\ r.st.mem = ZeroBytes(a_bytes, a.addr + a.size, n - a.size)

\* What the code does keep of C23: the call returns old_addr, sets offset to
\* prev_offset + new_size and leaves the first old_size bytes as they were.
C23_ArenaGrowKeepsPrefix ==
    (ArenaSound /\ ArenaHonest) =>
        \A a \in ArenaInPlace : \A n \in ArenaNewSizes :
            n > a.size =>
                \A r \in Arena_resize_aligned(ArenaRec, a.addr, a.size, n, a.align) :
                    ~r.st.crashed =>
                        /\ r.ret = a.addr
                        /\ r.st.offset = a_prev_offset + n
                        /\ \A k \in 0 .. a.size - 1 :
                            r.st.mem[a.addr - ArenaMemory + k] = a_bytes[a.addr - ArenaMemory + k]

\* The blocks for which Stack::resize_aligned takes the path of line 332: the
\* top block the caller holds, its header being the allocator's prev_header.
StackInPlace ==
    IF s_live # <<>> /\ Top(s_live).addr - HeaderSize = s_prev_header
    THEN {Top(s_live)} ELSE {}

\* C24: Stack::resize_aligned on the top allocation returns old_addr, sets
\* offset = (old_addr - memory) + new_size, leaves prev_offset, prev_header and
\* all headers unchanged, preserves the first min(old_size, new_size) bytes,
\* and when growing writes zero to the newly revealed tail
\* [old_addr + old_size, old_addr + new_size) and to no other byte of the
\* buffer or beyond it.
C24_TopResizeInPlace ==
    StackSound =>
        \A a \in StackInPlace : \A n \in StackNewSizes \ {0} :
            \A r \in Stack_resize_aligned(StackRec, a.addr, a.size, n, a.align) :
                /\ ~r.st.crashed
                /\ ~r.st.oob
                /\ r.ret = a.addr
                /\ r.st.offset = (a.addr - StackMemory) + n
                /\ r.st.prev_offset = s_prev_offset
                /\ r.st.prev_header = s_prev_header
                /\ r.st.mem = (IF n > a.size
                               THEN ZeroWords(s_memory, a.addr + a.size, n - a.size)
                               ELSE s_memory)

\* What the code does keep of C24, for a top block of positive size and a call
\* that does not fault: the address, the offset, prev_offset and prev_header,
\* every word below old_addr + old_size (the headers and the old contents),
\* and a zeroed tail.
C24_TopResizeKeepsBelow ==
    StackSound =>
        \A a \in StackInPlace : \A n \in StackNewSizes \ {0} :
            a.size > 0 =>
                \A r \in Stack_resize_aligned(StackRec, a.addr, a.size, n, a.align) :
                    ~r.st.crashed =>
                        /\ r.ret = a.addr
                        /\ r.st.offset = (a.addr - StackMemory) + n
                        /\ r.st.prev_offset = s_prev_offset
                        /\ r.st.prev_header = s_prev_header
                        /\ \A w \in StackWords :
                            StackMemory + w * WordSize < a.addr + a.size =>
                                r.st.mem[w] = s_memory[w]
                        /\ StackZeroAt(r.st.mem, a.addr + a.size, n - a.size)

\* ---------------------------------------------------------------------------
\* Properties of Arena: reset and the recorded prev_offset
\* ---------------------------------------------------------------------------

\* C25: after reset(), no resize_aligned call can observe the prev_offset left
\* over from before the reset: until the next successful alloc_aligned,
\* resize_aligned never takes the most-recent fast path, so reset followed by
\* resize_aligned on a pre-reset address cannot move offset back up to
\* prev_offset + new_size; the call does what the allocate-and-copy path does.
C25_ResetHidesPrevOffset ==
    (ArenaSound /\ a_last.op = "reset") =>
        \A addr \in a_dead : \A old_size \in ArenaSizes \ {0} :
        \A n \in ArenaNewSizes : \A align \in ArenaAligns :
            \A r \in Arena_resize_aligned(ArenaRec, addr, old_size, n, align) :
                r \in Arena_resize_move(ArenaRec, addr, old_size, n, align)

\* What the code does keep of C25: after reset(), resize_aligned on a
\* pre-reset address other than memory + prev_offset does what the
\* allocate-and-copy path does, and a successful alloc_aligned records the
\* offset it started from in prev_offset.
C25_ResetHidesOtherAddresses ==
    /\ (ArenaSound /\ a_last.op = "reset") =>
        \A addr \in a_dead \ {ArenaMemory + a_prev_offset} :
        \A old_size \in ArenaSizes \ {0} : \A n \in ArenaNewSizes : \A align \in ArenaAligns :
            \A r \in Arena_resize_aligned(ArenaRec, addr, old_size, n, align) :
                r \in Arena_resize_move(ArenaRec, addr, old_size, n, align)
    /\ (ArenaSound /\ a_last.op = "alloc") => a_prev_offset = a_last.pre_offset

\* ---------------------------------------------------------------------------
\* Properties of Stack: where the headers are
\* ---------------------------------------------------------------------------

\* The header of the live block a is the HeaderSize bytes in front of it, inside
\* the buffer and not below the offset the block was allocated at.
HeaderInPadding(a) ==
    LET header == a.addr - HeaderSize IN
    /\ header >= StackMemory + a.before
    /\ RangeInStack(header, HeaderSize)

\* The header of a overlaps neither the header nor the user region of b.
HeaderClearOf(a, b) ==
    \/ a.addr <= b.addr - HeaderSize
    \/ b.addr + b.size <= a.addr - HeaderSize

\* C26: for every live allocation A, its header occupies exactly
\* [addr(A) - sizeof(header), addr(A)), and that range lies inside the buffer
\* at or after the value offset had just before A was allocated, so a header
\* never overlaps the user region or header of any other live allocation.
C26_HeadersInPaddingDisjoint ==
    StackSound =>
        /\ \A i \in DOMAIN s_live : HeaderInPadding(s_live[i])
        /\ \A i, j \in DOMAIN s_live : i # j => HeaderClearOf(s_live[i], s_live[j])

\* What the code does keep of C26: the placement of every live header, and
\* the headers clear of each other and of the user regions as long as
\* resize_aligned has changed nothing.
C26_HeadersInPaddingNoResize ==
    StackSound =>
        /\ \A i \in DOMAIN s_live : HeaderInPadding(s_live[i])
        /\ s_resizes = MaxStackResizes =>
            \A i, j \in DOMAIN s_live : i # j => HeaderClearOf(s_live[i], s_live[j])

\* ---------------------------------------------------------------------------
\* Properties of Pool: chunks on the free list
\* ---------------------------------------------------------------------------

\* No chunk is on the free list twice, and alloc() does not return a chunk the
\* caller holds.
PoolNoChunkTwice ==
    /\ FreeListAcyclic(PoolRec)
    /\ \A r \in Pool_alloc(PoolRec) : r.ret # Null => r.ret \notin p_out

\* C27: after any sequence of alloc() and free(addr) calls in which every freed
\* addr is within [aligned_memory, aligned_memory + capacity], no chunk appears
\* twice on the free list (the list is acyclic), so alloc() never returns a
\* chunk that is already outstanding.
C27_FreeListHasNoChunkTwice ==
    (PoolSound /\ p_valid) => PoolNoChunkTwice

\* C27 as amended: after any sequence of alloc() and free(addr) calls in which
\* every freed addr is a chunk obtained from alloc() and not freed since, no
\* chunk appears twice on the free list (the list is acyclic), so alloc()
\* never returns a chunk that is already outstanding.
C27_HeldChunksOnFreeListOnce ==
    (PoolSound /\ p_valid /\ PoolHonest) => PoolNoChunkTwice

\* A chunk the caller held has just been put back in front of another free
\* chunk, and the caller still holds a chunk.
C27_Witness ==
    /\ PoolSound /\ p_valid /\ PoolHonest
    /\ p_last.op = "free" /\ p_last.kind = "held" /\ p_last.freed
    /\ p_head = p_last.addr
    /\ Len(FreeList(PoolRec)) >= 2
    /\ p_out # {}

\* ---------------------------------------------------------------------------
\* Properties of Stack: the padding a header records
\* ---------------------------------------------------------------------------

\* The padding field of the header in front of the block at addr, in S.
PaddingField(S, addr) == S.mem[WordIx(addr - HeaderSize + OffPadding)]

\* C28: immediately after a successful alloc_aligned(size, align), for every
\* power-of-two align up to the supported maximum, the new header's padding
\* field equals the number of padding bytes the allocation consumed,
\* addr - (memory + offset before the call), which is the value returned by
\* calc_padding_with_header.
C28_PaddingFieldIsPaddingConsumed ==
    StackSound =>
        \A size \in StackSizes, align \in StackWideAligns :
            \A r \in Stack_alloc_aligned(StackRec, size, align) :
                (r.ret # Null /\ ~r.st.crashed) =>
                    /\ PaddingField(r.st, r.ret) = r.ret - (StackMemory + s_offset)
                    /\ r.ret - (StackMemory + s_offset) =
                          calc_padding_with_header(StackMemory + s_offset,
                                                   ClampAlign(align), HeaderSize)

\* What the code does keep of C28: the padding consumed is the value of
\* calc_padding_with_header, and the field holds it when it is below 256.
C28_PaddingFieldBelow256 ==
    StackSound =>
        \A size \in StackSizes, align \in StackWideAligns :
            \A r \in Stack_alloc_aligned(StackRec, size, align) :
                (r.ret # Null /\ ~r.st.crashed) =>
                    /\ r.ret - (StackMemory + s_offset) < 256 =>
                          PaddingField(r.st, r.ret) = r.ret - (StackMemory + s_offset)
                    /\ r.ret - (StackMemory + s_offset) =
                          calc_padding_with_header(StackMemory + s_offset,
                                                   ClampAlign(align), HeaderSize)

\* ---------------------------------------------------------------------------
\* Properties of is_power_of_two
\* ---------------------------------------------------------------------------

\* C29: is_power_of_two(x) for x > 0 returns true if and only if
\* x & (x - 1) == 0, so the assertions guarding forward_align,
\* calc_padding_with_header, Arena::resize_aligned and Stack::alloc_aligned
\* fail for every align that is not a power of two.
C29_IsPowerOfTwoExact ==
    (f_last.op = "is_power_of_two" /\ f_base > 0) =>
        (f_last.ret = 1 <=> BitAnd(f_base, f_base - 1) = 0)

\* What the code does keep of C29: is_power_of_two(x) is true for every power
\* of two x.
C29_IsPowerOfTwoAcceptsPowers ==
    (f_last.op = "is_power_of_two" /\ f_base > 0 /\ BitAnd(f_base, f_base - 1) = 0) =>
        f_last.ret = 1

====
